---- MODULE Spec2Model ----
(***************************************************************************)
(* A model of pyattck/enterprise/attckobject.py: the class AttckObject,    *)
(* its process-wide relationship index (_RELATIONSHIPS, built by           *)
(* set_relationships) and its attribute normalisers (_set_id, __set_alias, *)
(* _set_attribute, _create_data_sources_dict, __init__).                   *)
(*                                                                         *)
(* Python values.  None is the record [py |-> "None"].                     *)
(*                                                                         *)
(* set_relationships never tests the type of a value: there a dict is a    *)
(* function whose DOMAIN is the set of its keys (the empty dict is the     *)
(* empty function <<>>), a list is a sequence and the identifiers, which   *)
(* are only copied and compared, are strings.                              *)
(*                                                                         *)
(* The normalisers test types and truth values and look inside strings:    *)
(* there every value carries its type, PyStr(s) with s a sequence of       *)
(* one-character strings, PyList(l) with l a sequence of values,           *)
(* PyDict(d) with d a function from keys to values, PyBool(b), PyInt(n).   *)
(***************************************************************************)
EXTENDS Integers, Sequences, FiniteSets, TLC

VARIABLES
    RELATIONSHIPS,     \* AttckObject._RELATIONSHIPS, the class attribute
    pc,                \* per caller: where it is in set_relationships
    attck_obj,         \* per caller: the 'objects' list of the argument attck_obj
    idx,               \* per caller: position of the for loop of line 76
    relationship_obj,  \* per caller: the local dict of line 75
    returned,          \* per caller: number of calls that have returned
    obj,               \* the argument (obj, kwargs) of the normaliser under call
    name,              \* the argument 'name' of _set_attribute
    ret                \* the outcome of that call: pending, a return value, a raise

indexVars == <<RELATIONSHIPS, pc, attck_obj, idx, relationship_obj, returned>>
normVars == <<obj, name, ret>>
vars == <<RELATIONSHIPS, pc, attck_obj, idx, relationship_obj, returned, obj, name, ret>>

(***************************************************************************)
(* Bounds of the model.                                                    *)
(***************************************************************************)
\* longest 'objects' list of a dataset handed to set_relationships
MaxObjects == 2
\* number of consecutive set_relationships calls of the sequential caller
MaxCalls == 2
\* longest external_references list of a record handed to _set_id
MaxRefs == 2
\* longest aliases and x_mitre_aliases list of a record handed to __init__
MaxAliases == 2
\* longest list handed to _create_data_sources_dict, and its longest entry
MaxItems == 2
MaxChars == 3

\* the callers of set_relationships; caller 1 is the sequential caller
Threads == {1, 2}

None == [py |-> "None"]

\* Python truth value testing of None and of a dict: 'not v'
PyNot(v) == v = None \/ DOMAIN v = {}

(***************************************************************************)
(* The datasets: attck_obj['objects'] is a list of dicts.  The relationship*)
(* records carry source_ref and target_ref (STIX requires both); the other *)
(* records are of another type or have no 'type' key at all, and some of   *)
(* them carry the two keys as well, so that the type test matters.         *)
(***************************************************************************)
Relationship(s, t) == [type |-> "relationship", source_ref |-> s, target_ref |-> t]

Items ==
    { Relationship("A", "B"), Relationship("A", "C"), Relationship("B", "A"),
      Relationship("C", "C"),
      [type |-> "malware", source_ref |-> "A", target_ref |-> "C"],
      [source_ref |-> "C", target_ref |-> "B"] }

RECURSIVE ListsOf(_, _)
ListsOf(S, n) ==
    IF n = 0 THEN {<<>>}
    ELSE LET shorter == ListsOf(S, n - 1)
         IN  shorter \cup {Append(l, x) : l \in {m \in shorter : Len(m) = n - 1}, x \in S}

Datasets == ListsOf(Items, MaxObjects)

\* the records of the datasets of the concurrent callers
ThreadItems ==
    { Relationship("A", "B"), Relationship("A", "C"), Relationship("B", "A"),
      [type |-> "malware", source_ref |-> "A", target_ref |-> "C"] }

ThreadDatasets == ListsOf(ThreadItems, MaxObjects)

(***************************************************************************)
(* set_relationships, lines 66-87.                                         *)
(***************************************************************************)
\* lines 81-83 and 84-86: 'if k not in d: d[k] = []' then 'd[k].append(x)'
DictAppend(d, k, x) ==
    IF k \in DOMAIN d
    THEN [d EXCEPT ![k] = Append(@, x)]
    ELSE [j \in DOMAIN d \cup {k} |-> IF j = k THEN <<x>> ELSE d[j]]

\* a mutant of ScanItem: the type tests of lines 77-78 are dropped
ScanItemUnchecked(d, item) ==
    DictAppend(DictAppend(d, item.source_ref, item.target_ref),
               item.target_ref, item.source_ref)

\* lines 77-86: the body of the for loop, on the local dict d
ScanItem(d, item) ==
    IF "type" \in DOMAIN item
    THEN IF item.type = "relationship"
         THEN LET source_id == item.source_ref
                  target_id == item.target_ref
                  d1 == DictAppend(d, source_id, target_id)
              IN  DictAppend(d1, target_id, source_id)
         ELSE d
    ELSE d

\* the call: set_relationships(attck_obj) by caller t, with attck_obj['objects'] = objects
Call(t, objects) ==
    /\ pc[t] = "idle"
    /\ pc' = [pc EXCEPT ![t] = "check"]
    /\ attck_obj' = [attck_obj EXCEPT ![t] = objects]
    /\ UNCHANGED <<RELATIONSHIPS, idx, relationship_obj, returned, normVars>>

\* line 74, cache empty: line 75, and the for loop starts
CheckBuild(t) ==
    /\ pc[t] = "check"
    /\ PyNot(RELATIONSHIPS)
    /\ relationship_obj' = [relationship_obj EXCEPT ![t] = <<>>]
    /\ idx' = [idx EXCEPT ![t] = 1]
    /\ pc' = [pc EXCEPT ![t] = "loop"]
    /\ UNCHANGED <<RELATIONSHIPS, attck_obj, returned, normVars>>

\* line 74, cache present: the method returns at once
CheckSkip(t) ==
    /\ pc[t] = "check"
    /\ ~PyNot(RELATIONSHIPS)
    /\ pc' = [pc EXCEPT ![t] = "idle"]
    /\ returned' = [returned EXCEPT ![t] = @ + 1]
    /\ UNCHANGED <<RELATIONSHIPS, attck_obj, idx, relationship_obj, normVars>>

\* a mutant of LoopItem: the scan fills the shared mapping in place
LoopItemShared(t) ==
    /\ pc[t] = "loop"
    /\ idx[t] <= Len(attck_obj[t])
    /\ RELATIONSHIPS' = ScanItem(IF RELATIONSHIPS = None THEN <<>> ELSE RELATIONSHIPS,
                                 attck_obj[t][idx[t]])
    /\ relationship_obj' = [relationship_obj EXCEPT ![t] = RELATIONSHIPS']
    /\ idx' = [idx EXCEPT ![t] = @ + 1]
    /\ UNCHANGED <<pc, attck_obj, returned, normVars>>

\* lines 76-86: one iteration of the for loop
LoopItem(t) ==
    /\ pc[t] = "loop"
    /\ idx[t] <= Len(attck_obj[t])
    /\ relationship_obj' =
           [relationship_obj EXCEPT ![t] = ScanItem(@, attck_obj[t][idx[t]])]
    /\ idx' = [idx EXCEPT ![t] = @ + 1]
    /\ UNCHANGED <<RELATIONSHIPS, pc, attck_obj, returned, normVars>>

\* line 87: the loop is over, the local dict is published, the method returns
Publish(t) ==
    /\ pc[t] = "loop"
    /\ idx[t] > Len(attck_obj[t])
    /\ RELATIONSHIPS' = relationship_obj[t]
    /\ pc' = [pc EXCEPT ![t] = "idle"]
    /\ returned' = [returned EXCEPT ![t] = @ + 1]
    /\ UNCHANGED <<attck_obj, idx, relationship_obj, normVars>>

\* no normaliser is under call
Pending == [kind |-> "pending"]

NoCall ==
    /\ obj = None
    /\ name = ""
    /\ ret = Pending

\* the class body has run (line 15) and set_relationships was never called
NoIndex ==
    /\ RELATIONSHIPS = None
    /\ pc = [t \in Threads |-> "idle"]
    /\ attck_obj = [t \in Threads |-> <<>>]
    /\ idx = [t \in Threads |-> 1]
    /\ relationship_obj = [t \in Threads |-> <<>>]
    /\ returned = [t \in Threads |-> 0]

Init == NoIndex /\ NoCall

\* one caller, one call after the other
Next ==
    \/ \E objects \in Datasets : returned[1] < MaxCalls /\ Call(1, objects)
    \/ CheckBuild(1)
    \/ CheckSkip(1)
    \/ LoopItem(1)
    \/ Publish(1)

Spec == Init /\ [][Next]_vars

\* several callers, one call each, their steps interleaved in any order
NextThreads ==
    \E t \in Threads :
        \/ \E objects \in ThreadDatasets : returned[t] = 0 /\ Call(t, objects)
        \/ CheckBuild(t)
        \/ CheckSkip(t)
        \/ LoopItem(t)
        \/ Publish(t)

SpecThreads == Init /\ [][NextThreads]_vars

(***************************************************************************)
(* The values of the normalisers.                                          *)
(***************************************************************************)
PyStr(s) == [py |-> "str", v |-> s]
PyList(l) == [py |-> "list", v |-> l]
PyDict(d) == [py |-> "dict", v |-> d]
PyBool(b) == [py |-> "bool", v |-> b]
PyInt(n) == [py |-> "int", v |-> n]

\* Python truth value testing: 'if v', 'not v'
Truthy(x) ==
    CASE x.py = "None" -> FALSE
      [] x.py = "str"  -> Len(x.v) > 0
      [] x.py = "list" -> Len(x.v) > 0
      [] x.py = "dict" -> DOMAIN x.v # {}
      [] x.py = "bool" -> x.v
      [] x.py = "int"  -> x.v # 0

\* dict.get(key): the value, or None when the key is missing
Get(d, key) == IF key \in DOMAIN d.v THEN d.v[key] ELSE None

\* str.__contains__: 'sub in s'
Contains(sub, s) ==
    \E i \in 0..(Len(s) - Len(sub)) : SubSeq(s, i + 1, i + Len(sub)) = sub

\* how a call ends
Return(value) == [kind |-> "return", value |-> value]
Raise(exc) == [kind |-> "raise", exc |-> exc]

\* the string literals of the code
MitreAttack == <<"m", "i", "t", "r", "e", "-", "a", "t", "t", "a", "c", "k">>
NIST == <<"N", "I", "S", "T">>
NoIdDefined == <<"N", "o", " ", "I", "D", " ", "D", "e", "f", "i", "n", "e", "d">>

(***************************************************************************)
(* _set_id, lines 156-172.                                                 *)
(***************************************************************************)
\* lines 167-172: the for loop over obj['external_references'], then line 172.
\* Line 170, 'NIST' in p.get('source_name'), raises TypeError when the entry
\* has no source_name: p.get returns None, and None is not iterable.
RECURSIVE set_id_loop(_)
set_id_loop(refs) ==
    IF refs = <<>> THEN Return(PyStr(NoIdDefined))
    ELSE LET p == Head(refs)
             source_name == Get(p, "source_name")
         IN  IF source_name = PyStr(MitreAttack)
             THEN Return(Get(p, "external_id"))
             ELSE IF source_name.py # "str"
                  THEN Raise("TypeError")
                  ELSE IF Contains(NIST, source_name.v)
                       THEN Return(Get(p, "external_id"))
                       ELSE set_id_loop(Tail(refs))

\* lines 166-172
set_id(o) ==
    IF Truthy(Get(o, "external_references"))
    THEN set_id_loop(Get(o, "external_references").v)
    ELSE Return(PyStr(NoIdDefined))

(***************************************************************************)
(* __set_alias, lines 89-106.                                              *)
(***************************************************************************)
\* a mutant of set_alias: like _set_list_items, None when there is no alias field
set_alias_or_none(o) ==
    IF Truthy(Get(o, "aliases")) \/ Truthy(Get(o, "x_mitre_aliases"))
    THEN PyList((IF Truthy(Get(o, "aliases")) THEN Get(o, "aliases").v ELSE <<>>)
                \o (IF Truthy(Get(o, "x_mitre_aliases"))
                    THEN Get(o, "x_mitre_aliases").v ELSE <<>>))
    ELSE None

set_alias(o) ==
    LET return_list1 ==
            IF Truthy(Get(o, "aliases")) THEN Get(o, "aliases").v ELSE <<>>
        return_list2 ==
            IF Truthy(Get(o, "x_mitre_aliases"))
            THEN return_list1 \o Get(o, "x_mitre_aliases").v
            ELSE return_list1
    IN  PyList(return_list2)

(***************************************************************************)
(* _set_attribute, lines 108-125.                                          *)
(***************************************************************************)
\* a mutant of set_attribute: line 123 tests 'value is None'
set_attribute_none_only(o, n) ==
    IF o.py # "dict" THEN None ELSE Get(o, n)

\* lines 121-125.  Only a dict has a get method: on anything else line 122
\* raises AttributeError, which the bare except of line 124 turns into None.
set_attribute(o, n) ==
    IF o.py # "dict"
    THEN None
    ELSE LET value == Get(o, n)
         IN  IF ~Truthy(value) THEN None ELSE value

(***************************************************************************)
(* _set_reference, lines 189-209.                                          *)
(***************************************************************************)
set_reference(o) ==
    IF Truthy(Get(o, "external_references"))
    THEN PyList(Get(o, "external_references").v)
    ELSE PyList(<<>>)

(***************************************************************************)
(* __init__, lines 20-37.  An exception of a line ends the construction.   *)
(***************************************************************************)
init(kwargs) ==
    LET id == set_id(kwargs)
        alias == set_alias(kwargs)
    IN  IF id.kind = "raise" THEN id
        ELSE Return([id |-> id.value,
                     name |-> set_attribute(kwargs, "name"),
                     alias |-> alias,
                     aliases |-> alias,
                     description |-> set_attribute(kwargs, "description"),
                     reference |-> set_reference(kwargs),
                     created |-> set_attribute(kwargs, "created"),
                     modified |-> set_attribute(kwargs, "modified"),
                     stix |-> set_attribute(kwargs, "id"),
                     type |-> set_attribute(kwargs, "type")])

(***************************************************************************)
(* _create_data_sources_dict, lines 127-136.                               *)
(***************************************************************************)
Colon == ":"
Space == " "

\* str.split(':'): the pieces between the separators, in order
RECURSIVE Split(_)
Split(s) ==
    IF \E i \in 1..Len(s) : s[i] = Colon
    THEN LET i == CHOOSE j \in 1..Len(s) :
                      s[j] = Colon /\ \A k \in 1..(j - 1) : s[k] # Colon
         IN  <<SubSeq(s, 1, i - 1)>> \o Split(SubSeq(s, i + 1, Len(s)))
    ELSE <<s>>

\* str.strip(): leading and trailing whitespace removed
RECURSIVE LStrip(_)
LStrip(s) == IF s # <<>> /\ Head(s) = Space THEN LStrip(Tail(s)) ELSE s

RECURSIVE RStrip(_)
RStrip(s) ==
    IF s # <<>> /\ s[Len(s)] = Space THEN RStrip(SubSeq(s, 1, Len(s) - 1)) ELSE s

Strip(s) == RStrip(LStrip(s))

\* lines 130-135: the for loop, on the dict built so far.  Line 132 unpacks the
\* pieces of split(':') into two names, and raises ValueError unless they are two.
RECURSIVE data_sources_loop(_, _)
data_sources_loop(items, return_dict) ==
    IF items = <<>>
    THEN Return(PyDict([k \in DOMAIN return_dict |-> PyList(return_dict[k])]))
    ELSE LET item == Head(items).v
         IN  IF Contains(<<Colon>>, item)
             THEN LET pieces == Split(item)
                  IN  IF Len(pieces) # 2
                      THEN Raise("ValueError")
                      ELSE data_sources_loop(
                               Tail(items),
                               DictAppend(return_dict, pieces[1], PyStr(Strip(pieces[2]))))
             ELSE data_sources_loop(Tail(items), return_dict)

\* lines 128-136
create_data_sources_dict(o) ==
    IF o.py = "list" THEN data_sources_loop(o.v, <<>>) ELSE Return(PyDict(<<>>))

(***************************************************************************)
(* The arguments the normalisers are called with.                          *)
(***************************************************************************)
\* a key that a dict does not have
Absent == [py |-> "absent"]

\* the dict with the keys of f whose value is not Absent
MkDict(f) == PyDict([k \in {j \in DOMAIN f : f[j] # Absent} |-> f[k]])

\* the entries of external_references: with or without source_name and external_id
SourceNames ==
    { MitreAttack, NIST, <<"x", "N", "I", "S", "T", "5">>,
      <<"n", "i", "s", "t">>, <<"N", "I", "S">> }

ExternalIds == {<<"1">>, <<"2">>}

Refs ==
    { MkDict([source_name |-> sn, external_id |-> id]) :
          sn \in {PyStr(x) : x \in SourceNames} \cup {Absent},
          id \in {PyStr(x) : x \in ExternalIds} \cup {Absent} }

\* the records handed to _set_id
IdRecords ==
    { MkDict([external_references |-> r]) :
          r \in {Absent, None} \cup {PyList(l) : l \in ListsOf(Refs, MaxRefs)} }

\* those whose entries all name their source, as STIX external references do
NamedRefs == {p \in Refs : "source_name" \in DOMAIN p.v}

NamedIdRecords ==
    { MkDict([external_references |-> r]) :
          r \in {Absent, None} \cup {PyList(l) : l \in ListsOf(NamedRefs, MaxRefs)} }

\* the records handed to __init__
AliasLists ==
    {Absent, None} \cup
        {PyList(l) : l \in ListsOf({PyStr(<<c>>) : c \in {"a", "b", "c"}}, MaxAliases)}

InitRefLists ==
    { Absent,
      PyList(<<>>),
      PyList(<<MkDict([source_name |-> PyStr(MitreAttack), external_id |-> PyStr(<<"1">>)])>>),
      PyList(<<MkDict([source_name |-> PyStr(NIST), external_id |-> PyStr(<<"2">>)]),
               MkDict([source_name |-> PyStr(MitreAttack), external_id |-> PyStr(<<"1">>)])>>),
      PyList(<<MkDict([source_name |-> Absent, external_id |-> PyStr(<<"1">>)])>>) }

InitRecords ==
    { MkDict([external_references |-> r, aliases |-> a, x_mitre_aliases |-> x,
              type |-> t, description |-> d, name |-> n]) :
          r \in InitRefLists, a \in AliasLists, x \in AliasLists,
          t \in {Absent, PyStr(<<"m">>)},
          d \in {Absent, PyStr(<<>>), PyStr(<<"d">>)},
          n \in {Absent, PyStr(<<"n">>)} }

\* the arguments of _set_attribute: dicts, and values that are no dict
AttrValues ==
    { None, PyStr(<<>>), PyStr(<<"d">>), PyList(<<>>), PyList(<<PyStr(<<"d">>)>>),
      PyDict(<<>>), PyDict([k |-> None]),
      PyBool(FALSE), PyBool(TRUE), PyInt(0), PyInt(1) }

AttrObjs ==
    { MkDict([description |-> d, name |-> n]) :
          d \in AttrValues \cup {Absent}, n \in AttrValues \cup {Absent} }
    \cup {None, PyList(<<>>), PyStr(<<"d">>), PyInt(1)}

AttrNames == {"description", "name"}

\* the arguments of _create_data_sources_dict: lists of strings, and others
Chars == {"a", "b", Colon, Space}

DataSourceLists ==
    {PyList(l) : l \in ListsOf({PyStr(x) : x \in ListsOf(Chars, MaxChars)}, MaxItems)}
    \cup {None, PyStr(<<"a", Colon, "b">>), PyDict(<<>>)}

(***************************************************************************)
(* The calls of the normalisers, each on an argument of its own.           *)
(***************************************************************************)
CallSetId ==
    /\ ret = Pending
    /\ ret' = set_id(obj)
    /\ UNCHANGED <<obj, name, indexVars>>

InitId == NoIndex /\ obj \in IdRecords /\ name = "" /\ ret = Pending
SpecId == InitId /\ [][CallSetId]_vars

InitIdNamed == NoIndex /\ obj \in NamedIdRecords /\ name = "" /\ ret = Pending
SpecIdNamed == InitIdNamed /\ [][CallSetId]_vars

CallInit ==
    /\ ret = Pending
    /\ ret' = init(obj)
    /\ UNCHANGED <<obj, name, indexVars>>

InitInit == NoIndex /\ obj \in InitRecords /\ name = "" /\ ret = Pending
SpecInit == InitInit /\ [][CallInit]_vars

CallSetAttribute ==
    /\ ret = Pending
    /\ ret' = Return(set_attribute(obj, name))
    /\ UNCHANGED <<obj, name, indexVars>>

InitAttr == NoIndex /\ obj \in AttrObjs /\ name \in AttrNames /\ ret = Pending
SpecAttr == InitAttr /\ [][CallSetAttribute]_vars

CallCreateDataSourcesDict ==
    /\ ret = Pending
    /\ ret' = create_data_sources_dict(obj)
    /\ UNCHANGED <<obj, name, indexVars>>

InitDataSources == NoIndex /\ obj \in DataSourceLists /\ name = "" /\ ret = Pending
SpecDataSources == InitDataSources /\ [][CallCreateDataSourcesDict]_vars

(***************************************************************************)
(* The index a dataset describes, stated record by record.                 *)
(***************************************************************************)
Ids == {"A", "B", "C"}

IsRelationship(item) == "type" \in DOMAIN item /\ item.type = "relationship"

\* the opposite endpoints, in encounter order, of the relationship records of
\* objects that have X as source_ref or as target_ref
RECURSIVE Opposite(_, _)
Opposite(objects, X) ==
    IF objects = <<>> THEN <<>>
    ELSE LET item == Head(objects)
         IN  (IF IsRelationship(item) /\ item.source_ref = X
              THEN <<item.target_ref>> ELSE <<>>)
             \o (IF IsRelationship(item) /\ item.target_ref = X
                 THEN <<item.source_ref>> ELSE <<>>)
             \o Opposite(Tail(objects), X)

IndexOf(objects) ==
    [X \in {Y \in Ids : Opposite(objects, Y) # <<>>} |-> Opposite(objects, X)]

HasRelationship(objects) == \E i \in 1..Len(objects) : IsRelationship(objects[i])

(***************************************************************************)
(* C1: once a first set_relationships(D1) has returned, a following        *)
(* set_relationships(D2) leaves _RELATIONSHIPS exactly as it was, whatever *)
(* D1 and D2 are (a D1 without relationship records included).             *)
(***************************************************************************)
C1_SecondCallChangesNothing ==
    [][returned[1] >= 1 => RELATIONSHIPS' = RELATIONSHIPS]_vars

(***************************************************************************)
(* C2: when the first set_relationships(D) has returned, the index holds,  *)
(* for every identifier X, exactly the opposite endpoints, in encounter    *)
(* order, of the relationship records of D that have X as an endpoint;     *)
(* records of another type or without type contribute nothing.             *)
(***************************************************************************)
C2_FirstBuildIsAdjacency ==
    (pc[1] = "idle" /\ returned[1] = 1) =>
        /\ RELATIONSHIPS # None
        /\ DOMAIN RELATIONSHIPS = {X \in Ids : Opposite(attck_obj[1], X) # <<>>}
        /\ \A X \in DOMAIN RELATIONSHIPS :
               RELATIONSHIPS[X] = Opposite(attck_obj[1], X)

C2_Witness ==
    /\ pc[1] = "idle" /\ returned[1] = 1
    /\ attck_obj[1] = <<Relationship("A", "B"), Relationship("A", "C")>>
    /\ RELATIONSHIPS = [A |-> <<"B", "C">>, B |-> <<"A">>, C |-> <<"A">>]

(***************************************************************************)
(* C10: under any interleaving of concurrent calls, _RELATIONSHIPS is      *)
(* either None or the complete index of the dataset of one of the callers. *)
(***************************************************************************)
C10_NoneOrOneCallersIndex ==
    \/ RELATIONSHIPS = None
    \/ \E t \in Threads :
           /\ pc[t] # "idle" \/ returned[t] > 0
           /\ RELATIONSHIPS = IndexOf(attck_obj[t])

\* both callers saw the cache empty, both scanned, and the second to publish
\* replaced the first one's index by its own
C10_Witness ==
    /\ returned[1] = 1 /\ returned[2] = 1
    /\ relationship_obj[1] = IndexOf(attck_obj[1])
    /\ relationship_obj[2] = IndexOf(attck_obj[2])
    /\ relationship_obj[1] # <<>> /\ relationship_obj[2] # <<>>
    /\ relationship_obj[1] # relationship_obj[2]
    /\ RELATIONSHIPS = relationship_obj[2]

(***************************************************************************)
(* What the claims about _set_id speak of.                                 *)
(***************************************************************************)
\* the entries of the record's external_references, none when it has no such list
References(o) ==
    IF "external_references" \in DOMAIN o.v /\ o.v.external_references.py = "list"
    THEN o.v.external_references.v
    ELSE <<>>

IsMitre(p) == "source_name" \in DOMAIN p.v /\ p.v.source_name = PyStr(MitreAttack)

HasNIST(p) == "source_name" \in DOMAIN p.v /\ Contains(NIST, p.v.source_name.v)

ExternalIdOf(p) == IF "external_id" \in DOMAIN p.v THEN p.v.external_id ELSE None

\* entry i is the first entry of refs that satisfies Test
First(refs, i, Test(_)) == Test(refs[i]) /\ \A j \in 1..(i - 1) : ~Test(refs[j])

(***************************************************************************)
(* C3: for every record with a mitre-attack entry, _set_id returns the     *)
(* external_id of that entry, wherever entries whose source_name contains  *)
(* NIST are placed relative to it.                                         *)
(***************************************************************************)
C3_MitreWinsAnywhere ==
    ret # Pending =>
        \A i \in 1..Len(References(obj)) :
            First(References(obj), i, IsMitre) =>
                ret = Return(ExternalIdOf(References(obj)[i]))

(***************************************************************************)
(* C4: constructing an AttckObject never raises, whatever the record; for  *)
(* a record without type the construction succeeds with type None.         *)
(***************************************************************************)
C4_InitNeverRaises ==
    ret # Pending =>
        /\ ret.kind = "return"
        /\ "type" \notin DOMAIN obj.v => ret.value.type = None

(***************************************************************************)
(* C5: for every record with no mitre-attack entry and at least one entry  *)
(* whose source_name contains NIST, _set_id returns the external_id of the *)
(* first such entry, whatever non-qualifying entries precede it.           *)
(***************************************************************************)
C5_FirstNISTEntry ==
    (ret # Pending /\ \A i \in 1..Len(References(obj)) : ~IsMitre(References(obj)[i])) =>
        \A i \in 1..Len(References(obj)) :
            First(References(obj), i, HasNIST) =>
                ret = Return(ExternalIdOf(References(obj)[i]))

(***************************************************************************)
(* C6: _set_id returns "No ID Defined" for every record whose              *)
(* external_references is absent or empty or holds no entry that is        *)
(* mitre-attack or contains NIST, and in no case where such an entry       *)
(* exists.                                                                 *)
(***************************************************************************)
C6_SentinelIffNoQualifyingEntry ==
    ret # Pending =>
        IF \E i \in 1..Len(References(obj)) :
               IsMitre(References(obj)[i]) \/ HasNIST(References(obj)[i])
        THEN ret # Return(PyStr(NoIdDefined))
        ELSE ret = Return(PyStr(NoIdDefined))

(***************************************************************************)
(* C7: the alias attribute of the constructed entity is the list of the    *)
(* entries of the record's aliases followed by those of x_mitre_aliases,   *)
(* the empty list (never None) when neither is present, and aliases holds  *)
(* the same value.                                                         *)
(***************************************************************************)
EntriesOf(o, key) ==
    IF key \in DOMAIN o.v /\ o.v[key].py = "list" THEN o.v[key].v ELSE <<>>

C7_AliasesConcatenated ==
    (ret # Pending /\ ret.kind = "return") =>
        /\ ret.value.alias =
               PyList(EntriesOf(obj, "aliases") \o EntriesOf(obj, "x_mitre_aliases"))
        /\ ret.value.aliases = ret.value.alias
        /\ ret.value.alias # None

C7_Witness ==
    /\ ret # Pending /\ ret.kind = "return"
    /\ EntriesOf(obj, "aliases") = <<PyStr(<<"a">>), PyStr(<<"b">>)>>
    /\ EntriesOf(obj, "x_mitre_aliases") = <<PyStr(<<"c">>)>>
    /\ ret.value.aliases = PyList(<<PyStr(<<"a">>), PyStr(<<"b">>), PyStr(<<"c">>)>>)

(***************************************************************************)
(* C8: for every list of strings _create_data_sources_dict returns the     *)
(* mapping from each source (the text before ':') to its trimmed           *)
(* components (the text after it) in encounter order, entries without ':'  *)
(* ignored; an argument that is no list gives the empty mapping.           *)
(***************************************************************************)
HasColon(s) == \E i \in 1..Len(s) : s[i] = Colon

FirstColon(s) == CHOOSE i \in 1..Len(s) : s[i] = Colon /\ \A j \in 1..(i - 1) : s[j] # Colon

SourceOf(s) == SubSeq(s, 1, FirstColon(s) - 1)

ComponentOf(s) == Strip(SubSeq(s, FirstColon(s) + 1, Len(s)))

Grouping(items) ==
    LET WithColon(e) == HasColon(e.v)
        entries == SelectSeq(items, WithColon)
        sources == {SourceOf(entries[i].v) : i \in 1..Len(entries)}
    IN  [k \in sources |->
            LET OfSource(e) == SourceOf(e.v) = k
                mine == SelectSeq(entries, OfSource)
            IN  PyList([i \in 1..Len(mine) |-> PyStr(ComponentOf(mine[i].v))])]

C8_GroupsComponentsBySource ==
    ret # Pending =>
        ret = Return(PyDict(IF obj.py = "list" THEN Grouping(obj.v) ELSE <<>>))

(***************************************************************************)
(* C9: _set_attribute never raises; it returns the field's value verbatim  *)
(* when the field is present and non-empty, and None when the field is     *)
(* missing, null, the empty string or an empty collection, or when the     *)
(* record is no mapping.                                                   *)
(***************************************************************************)
EmptyValues == {None, PyStr(<<>>), PyList(<<>>), PyDict(<<>>)}

C9_VerbatimUnlessEmpty ==
    ret # Pending =>
        ret = Return(IF obj.py = "dict" /\ name \in DOMAIN obj.v
                        /\ obj.v[name] \notin EmptyValues
                     THEN obj.v[name]
                     ELSE None)

(***************************************************************************)
(* C9, amended: _set_attribute never raises; it returns the field's value  *)
(* verbatim when the field is present and its value is not None, False,    *)
(* zero, the empty string or an empty collection; otherwise, and when the  *)
(* record is no mapping, it returns None.                                  *)
(***************************************************************************)
FalsyValues == EmptyValues \cup {PyBool(FALSE), PyInt(0)}

C9_VerbatimUnlessFalsy ==
    ret # Pending =>
        ret = Return(IF obj.py = "dict" /\ name \in DOMAIN obj.v
                        /\ obj.v[name] \notin FalsyValues
                     THEN obj.v[name]
                     ELSE None)

\* the empty description becomes None
C9_Witness ==
    /\ ret = Return(None)
    /\ name = "description"
    /\ obj.py = "dict" /\ "description" \in DOMAIN obj.v
    /\ obj.v.description = PyStr(<<>>)

====
